---- MODULE Spec2Model ----
(***************************************************************************)
(* A model of sherlock_mail.py (class SherlockMail and main).              *)
(*                                                                         *)
(* Strings the program takes apart (the email, the username, the domain)   *)
(* are sequences of one-character strings; strings it only compares or     *)
(* stores (platform names, status texts, DNS records) are TLA+ strings.    *)
(* An external call (HTTP GET, WHOIS, DNS) is one step whose answer is     *)
(* chosen by the environment from a small set; the call is appended to     *)
(* `requests` and its answer kept in `lastResp`.                           *)
(***************************************************************************)
EXTENDS Integers, Sequences, FiniteSets, TLC

\* Number of platforms of the social_platforms catalogue (taken in catalogue
\* order) that analyze_personal_info probes in the model.
MaxPlatforms == 2

----------------------------------------------------------------------------
\* Strings

RECURSIVE SplitFrom(_, _, _, _)
SplitFrom(s, sep, cur, i) ==
    IF i > Len(s) THEN <<cur>>
    ELSE IF s[i] = sep THEN <<cur>> \o SplitFrom(s, sep, <<>>, i + 1)
    ELSE SplitFrom(s, sep, Append(cur, s[i]), i + 1)

\* str.split(sep): the pieces between separators, empty pieces included.
Split(s, sep) == SplitFrom(s, sep, <<>>, 1)

RECURSIVE Join(_, _)
\* sep.join(parts)
Join(parts, sep) ==
    IF Len(parts) = 0 THEN <<>>
    ELSE IF Len(parts) = 1 THEN parts[1]
    ELSE parts[1] \o <<sep>> \o Join(Tail(parts), sep)

\* The emails an investigation is constructed with in the model.
Emails ==
    { <<"j", "d", "@", "x", ".", "c">>,
      <<"j", ".", "d", "@", "x", ".", "c">> }

\* __init__: self.username = email.split('@')[0]
UsernameOf(e) == Split(e, "@")[1]

\* __init__: self.domain = email.split('@')[1]
DomainOf(e) == Split(e, "@")[2]

\* [a-z], [A-Z] and [0-9]
LowerChars ==
    {"a", "b", "c", "d", "e", "f", "g", "h", "i", "j", "k", "l", "m", "n",
     "o", "p", "q", "r", "s", "t", "u", "v", "w", "x", "y", "z"}

UpperChars ==
    {"A", "B", "C", "D", "E", "F", "G", "H", "I", "J", "K", "L", "M", "N",
     "O", "P", "Q", "R", "S", "T", "U", "V", "W", "X", "Y", "Z"}

DigitChars == {"0", "1", "2", "3", "4", "5", "6", "7", "8", "9"}

\* [a-zA-Z]
IsAlpha(ch) == ch \in LowerChars \cup UpperChars

\* re.match(r"[^@]+@[^@]+\.[^@]+", email): a prefix of the email has the shape.
EmailMatches(e) ==
    \E a \in 1..Len(e), d \in 1..Len(e) :
        /\ \A x \in 1..a : e[x] # "@"
        /\ a + 1 <= Len(e) /\ e[a + 1] = "@"
        /\ d >= a + 3
        /\ \A x \in (a + 2)..(d - 1) : e[x] # "@"
        /\ e[d] = "."
        /\ d + 1 <= Len(e) /\ e[d + 1] # "@"

----------------------------------------------------------------------------
\* External calls and their answers

\* An external call: the endpoint (a fixed text) and the text formatted into it.
Call(base, name) == [base |-> base, name |-> name]

\* A None entry of a candidate list.
NoneURL == Call("None", <<>>)

\* The page titles of the model, each given by the lower-cased terms that
\* occur in it. "none" is a title element without a string.
NegativeTerms == {"not found", "error", "404", "page doesn't exist"}

\* An HTTP answer: raised (requests.get raised: timeout, connection error),
\* status_code, has_title (soup.title is not None), title_string ("None" when
\* soup.title.string is None, else "text"), title_terms (the negative terms
\* the lower-cased title contains), body_terms (those the body contains),
\* rich (the body holds the elements / JSON the platform-specific extraction
\* looks for).
Resp(raised, status, hasTitle, str, tterms, bterms, rich) ==
    [raised |-> raised, status_code |-> status, has_title |-> hasTitle,
     title_string |-> str, title_terms |-> tterms, body_terms |-> bterms,
     rich |-> rich]

RespTimeout == Resp(TRUE, 0, FALSE, "None", {}, {}, FALSE)

Responses ==
    { RespTimeout,
      Resp(FALSE, 404, TRUE, "text", {"not found"}, {"not found"}, FALSE),
      Resp(FALSE, 200, TRUE, "None", {}, {}, FALSE),
      Resp(FALSE, 200, FALSE, "None", {}, {}, FALSE),
      Resp(FALSE, 200, TRUE, "text", {}, {"error"}, FALSE),
      Resp(FALSE, 200, TRUE, "text", {}, {}, FALSE),
      Resp(FALSE, 200, TRUE, "text", {}, {}, TRUE) }
      \cup { Resp(FALSE, 200, TRUE, "text", {t}, {t}, FALSE) : t \in NegativeTerms }

----------------------------------------------------------------------------
\* analyze_personal_info: the catalogue and its candidate URLs

\* The keys of social_platforms, in insertion order.
SocialPlatformNames ==
    << "LinkedIn", "Twitter", "GitHub", "Instagram", "Medium", "Dev.to",
       "Stack Overflow", "Behance", "Dribbble", "Facebook", "YouTube",
       "Reddit", "Kaggle", "PyPI" >>

\* The platforms the model probes: the first MaxPlatforms of the catalogue.
ProbedPlatforms == SubSeq(SocialPlatformNames, 1, MaxPlatforms)

\* f"{base}{username_parts[0]}{sep}{username_parts[-1]}" if len(username_parts) > 1 else None
FirstLast(base, parts, sep) ==
    IF Len(parts) > 1
    THEN Call(base, parts[1] \o sep \o parts[Len(parts)])
    ELSE NoneURL

\* f"{base}{sep.join(username_parts)}" if len(username_parts) > 1 else None
Joined(base, parts, sep) ==
    IF Len(parts) > 1 THEN Call(base, Join(parts, sep)) ELSE NoneURL

\* social_platforms[platform] for username u: the candidates in declared order.
SocialPlatformURLs(platform, u) ==
    LET parts == Split(u, ".")
        Two(base, second) == << Call(base, u), second >>
    IN  CASE platform = "LinkedIn" ->
               << Call("https://www.linkedin.com/in/", u),
                  Call("https://www.linkedin.com/in/", Join(parts, "-")),
                  FirstLast("https://www.linkedin.com/in/", parts, <<"-">>) >>
          [] platform = "Twitter" ->
               Two("https://twitter.com/", FirstLast("https://twitter.com/", parts, <<"_">>))
          [] platform = "GitHub" ->
               Two("https://github.com/", FirstLast("https://github.com/", parts, <<>>))
          [] platform = "Instagram" ->
               Two("https://www.instagram.com/",
                   FirstLast("https://www.instagram.com/", parts, <<"_">>))
          [] platform = "Medium" ->
               Two("https://medium.com/@", FirstLast("https://medium.com/@", parts, <<".">>))
          [] platform = "Dev.to" ->
               Two("https://dev.to/", FirstLast("https://dev.to/", parts, <<>>))
          [] platform = "Stack Overflow" ->
               Two("https://stackoverflow.com/users/",
                   Joined("https://stackoverflow.com/users/", parts, "-"))
          [] platform = "Behance" ->
               Two("https://www.behance.net/",
                   FirstLast("https://www.behance.net/", parts, <<>>))
          [] platform = "Dribbble" ->
               Two("https://dribbble.com/", FirstLast("https://dribbble.com/", parts, <<>>))
          [] platform = "Facebook" ->
               Two("https://www.facebook.com/",
                   Joined("https://www.facebook.com/", parts, "."))
          [] platform = "YouTube" ->
               Two("https://www.youtube.com/@",
                   FirstLast("https://www.youtube.com/@", parts, <<>>))
          [] platform = "Reddit" ->
               Two("https://www.reddit.com/user/",
                   FirstLast("https://www.reddit.com/user/", parts, <<"_">>))
          [] platform = "Kaggle" ->
               Two("https://www.kaggle.com/",
                   FirstLast("https://www.kaggle.com/", parts, <<>>))
          [] platform = "PyPI" ->
               Two("https://pypi.org/user/", FirstLast("https://pypi.org/user/", parts, <<>>))

\* The terms whose presence in the lower-cased title rejects a page.
InvalidTitleTerms == {"not found", "error", "404", "page doesn't exist"}

\* title = soup.title.string if soup.title else "": "" (no title element),
\* "None" (a title element without a string) or "text".
PageTitle(r) == IF r.has_title THEN r.title_string ELSE ""

\* The negative terms found in the title when it is a string.
TitleTerms(r) == IF r.has_title THEN r.title_terms ELSE {}

\* What the body of the try block does with the answer to one candidate:
\* "exception" (requests.get raised, or title.lower() raised on None: the
\* except clause continues with the next candidate), "found" (status 200 and
\* no invalid term in the title: the entry is written and the loop breaks),
\* "rejected" (anything else: the loop goes on).
ProbeOutcome(r) ==
    IF r.raised THEN "exception"
    ELSE IF r.status_code = 200
         THEN IF PageTitle(r) = "None" THEN "exception"
              ELSE IF TitleTerms(r) \cap InvalidTitleTerms = {} THEN "found"
              ELSE "rejected"
    ELSE "rejected"

\* The keys the platform-specific extraction adds to a found entry.
ExtractedFields(platform, r) ==
    IF ~r.rich THEN {}
    ELSE CASE platform = "GitHub" -> {"repos", "contributions", "bio"}
           [] platform = "LinkedIn" -> {"headline", "location"}
           [] platform = "Twitter" -> {"followers", "bio"}
           [] OTHER -> {}

\* personal_info["social_profiles"][platform] as written on a match.
ProfileEntry(platform, url, u, r) ==
    [url |-> url, status |-> "Found", username |-> u, title |-> PageTitle(r),
     fields |-> ExtractedFields(platform, r)]

----------------------------------------------------------------------------
\* analyze_personal_info: the WHOIS and DNS answers

\* A whois.whois answer: raised, or creation_date (None: no dates and not a
\* list; a datetime: one date and not a list; a list of datetimes), org and
\* country. A date is given by the age in days it has now.
Whois(raised, dates, isList) ==
    [raised |-> raised, dates |-> dates, is_list |-> isList,
     org |-> "Example Org", country |-> "US"]

WhoisAnswers ==
    { Whois(TRUE, <<>>, FALSE), Whois(FALSE, <<>>, FALSE),
      Whois(FALSE, <<366>>, FALSE), Whois(FALSE, <<364, 4000>>, TRUE) }

\* The whois answers of the scoring operations: those of WhoisAnswers, and
\* creation dates 0, 365 and 4000 days old.
ScoreWhoisAnswers ==
    WhoisAnswers \cup { Whois(FALSE, <<0>>, FALSE), Whois(FALSE, <<365>>, FALSE),
                        Whois(FALSE, <<4000>>, FALSE) }

\* A dns.resolver.resolve answer: raised (NXDOMAIN, NoAnswer, timeout) or
\* the records as strings.
Dns(raised, records) == [raised |-> raised, records |-> records]

\* The value of lastDns before any lookup: no call of resolve returns it.
NoDns == Dns(FALSE, <<>>)

MXAnswers == { Dns(TRUE, <<>>), Dns(FALSE, <<"mx.x.c.">>) }

TXTAnswers ==
    { Dns(TRUE, <<>>), Dns(FALSE, <<"site-verification=1">>),
      Dns(FALSE, <<"site-verification=1", "v=spf1 include:_spf.x.c ~all">>) }

DMARCAnswers ==
    { Dns(TRUE, <<>>), Dns(FALSE, <<"site-verification=1">>),
      Dns(FALSE, <<"v=DMARC1; p=none">>) }

\* marker in record, for the records of the model.
Contains(record, marker) ==
    \/ marker = "v=spf1" /\ record = "v=spf1 include:_spf.x.c ~all"
    \/ marker = "v=DMARC1" /\ record = "v=DMARC1; p=none"

\* Mutant of FirstWith: the first record, whatever it holds.
FirstWithAny(records, marker) ==
    IF records = <<>> THEN "None" ELSE Head(records)

RECURSIVE FirstWith(_, _)
\* next((r for r in records if marker in r), None), None being "None".
FirstWith(records, marker) ==
    IF records = <<>> THEN "None"
    ELSE IF Contains(Head(records), marker) THEN Head(records)
    ELSE FirstWith(Tail(records), marker)

\* dns_info.get(key): None when the key is absent.
DictGet(d, key) == IF key \in DOMAIN d THEN d[key] ELSE "None"

\* w.creation_date[0] if isinstance(w.creation_date, list) else w.creation_date,
\* as a sequence: <<>> for None, else the one date.
CreationDate(w) == IF w.is_list THEN <<w.dates[1]>> ELSE w.dates

\* The domain_analysis entry built when whois.whois returned.
DomainAnalysis(dom, w, dns) ==
    [name |-> dom,
     creation_date |-> CreationDate(w),
     organization |-> w.org,
     country |-> w.country,
     dns_info |-> dns,
     email_security |->
        [has_spf |-> DictGet(dns, "spf_record") # "None",
         has_dmarc |-> DictGet(dns, "dmarc_record") # "None",
         mx_providers |-> dns["mx_records"]]]

\* The domain_analysis entry written by the outer except clause.
DomainAnalysisError(dom) ==
    [name |-> dom, error |-> "Could not fetch domain information"]

----------------------------------------------------------------------------
\* State

VARIABLES
    email, username, domain,   \* self.email, self.username, self.domain
    op,                        \* the operation that is executing
    caller,                    \* who called it: "api" or "run_investigation"
    argv,                      \* sys.argv[1:]
    task,                      \* the task run_investigation's loop is at
    results,                   \* the keys of self.results
    confidence,                \* stats["confidence"]
    exit_code,                 \* "running", or the process's exit code
    crash,                     \* the uncaught exception, "none" if none
    saved,                     \* the report file was written
    pc,                        \* where that operation is
    plat, cand,                \* the platform and the URL the loops are at
    social_profiles,           \* personal_info["social_profiles"]
    domain_info, dns_info,     \* locals of the domain analysis
    domain_analysis,           \* personal_info["domain_analysis"]
    footprint,                 \* analyze_social_footprint's footprint
    platform_data,             \* analyze_social_presence's platform_data
    social_analysis,           \* analyze_social_presence's social_analysis
    requests,                  \* the external calls issued so far, in order
    probeLog,                  \* the probes of the operation under way, in order
    lastResp,                  \* the answer to the last HTTP request
    lastDns,                   \* the answer to the last dns.resolver.resolve
    reputation,                \* what analyze_email_reputation returned
    professional,              \* what analyze_professional_score returned
    risks, risk_level,         \* locals of analyze_security_risks
    basic_info,                \* personal_info["basic_info"]
    social_platforms           \* analyze_personal_info's social_platforms

objVars == <<email, username, domain, op>>
loopVars == <<plat, cand>>
infoVars == <<social_profiles, domain_info, dns_info, domain_analysis>>
runVars == <<caller, argv, task, results, confidence, exit_code,
             crash, saved>>
footVars == <<footprint>>
presVars == <<platform_data, social_analysis>>
netVars == <<requests, probeLog, lastResp>>
scoreVars == <<reputation, professional, risks, risk_level, basic_info,
               social_platforms>>
vars == <<objVars, runVars, pc, loopVars, infoVars, footVars, presVars, netVars,
          lastDns, scoreVars>>

\* An entry of probeLog: the platform, the place of the URL in the platform's
\* list, whether the request raised, and whether the page was taken as a match.
Probe(platform, rank, r, matched) ==
    [platform |-> platform, rank |-> rank, raised |-> r.raised, matched |-> matched]

\* An empty dict.
EmptyDict == [k \in {} |-> "None"]

\* Mutant of DictSet: the dict is replaced by one holding the new item only.
DictSetAlone(d, key, value) == (key :> value)

\* d[key] = value
DictSet(d, key, value) == (key :> value) @@ d

----------------------------------------------------------------------------
\* analyze_personal_info

\* The candidates of the platform the loop is at.
CurrentURLs == SocialPlatformURLs(ProbedPlatforms[plat], username)

\* After the candidate at (plat, cand): the next candidate of the platform,
\* or on break, or after the last candidate, the first of the next platform.
\* After the last platform the loops are left for the domain analysis.
ProbeAdvance(break) ==
    IF ~break /\ cand < Len(CurrentURLs)
    THEN /\ cand' = cand + 1
         /\ plat' = plat
         /\ pc' = "probe"
    ELSE /\ cand' = 1
         /\ plat' = plat + 1
         /\ pc' = IF plat < Len(ProbedPlatforms) THEN "probe" ELSE "whois"

\* if url is None: continue
ProbeSkipNone ==
    /\ op = "analyze_personal_info"
    /\ pc = "probe"
    /\ CurrentURLs[cand] = NoneURL
    /\ ProbeAdvance(FALSE)
    /\ UNCHANGED <<lastDns, scoreVars, objVars, runVars, infoVars, footVars, presVars, netVars>>

\* Mutant of LeavesLoop: the break after the entry is missing.
LeavesLoopNever(outcome) == FALSE

\* Mutant of LeavesLoop: the try encloses the loop over the candidates, so
\* that an exception ends the platform's candidates.
LeavesLoopOnException(outcome) == outcome \in {"found", "exception"}

\* Whether the loop over a platform's candidates is left after a candidate
\* with this outcome: only the break that follows the entry leaves it; the
\* except clause continues.
LeavesLoop(outcome) == outcome = "found"

\* One pass of the try block: requests.get(url), the validity check, the
\* entry and its platform-specific fields, break; or the except clause.
ProbeCandidate ==
    /\ op = "analyze_personal_info"
    /\ pc = "probe"
    /\ CurrentURLs[cand] # NoneURL
    /\ \E r \in Responses :
         LET platform == ProbedPlatforms[plat]
             url == CurrentURLs[cand]
             found == ProbeOutcome(r) = "found"
         IN  /\ requests' = Append(requests, url)
             /\ probeLog' = Append(probeLog, Probe(platform, cand, r, found))
             /\ lastResp' = r
             /\ social_profiles' =
                  IF found
                  THEN DictSet(social_profiles, platform,
                               ProfileEntry(platform, url, username, r))
                  ELSE social_profiles
             /\ ProbeAdvance(LeavesLoop(ProbeOutcome(r)))
    /\ UNCHANGED <<lastDns, scoreVars, objVars, runVars, domain_info, dns_info, domain_analysis, footVars, presVars>>

\* domain_info = whois.whois(domain); when it raises, the outer except clause
\* writes the error entry and the function returns.
LookupWhois ==
    /\ op = "analyze_personal_info"
    /\ pc = "whois"
    /\ \E w \in WhoisAnswers :
         /\ requests' = Append(requests, Call("whois:", domain))
         /\ IF w.raised
            THEN /\ domain_analysis' = DomainAnalysisError(domain)
                 /\ pc' = "done"
                 /\ UNCHANGED domain_info
            ELSE /\ domain_info' = w
                 /\ pc' = "mx"
                 /\ UNCHANGED domain_analysis
    /\ UNCHANGED <<lastDns, scoreVars, objVars, runVars, loopVars, social_profiles, dns_info, lastResp, probeLog,
                   footVars, presVars>>

\* dns.resolver.resolve(domain, 'MX') inside its own try.
ResolveMX ==
    /\ op = "analyze_personal_info"
    /\ pc = "mx"
    /\ \E a \in MXAnswers :
         /\ requests' = Append(requests, Call("dns:MX:", domain))
         /\ lastDns' = a
         /\ dns_info' = DictSet(EmptyDict, "mx_records",
                                IF a.raised THEN <<>> ELSE a.records)
    /\ pc' = "txt"
    /\ UNCHANGED <<scoreVars, objVars, runVars, loopVars, social_profiles, domain_info,
                   domain_analysis, lastResp, probeLog,
                   footVars, presVars>>

\* dns.resolver.resolve(domain, 'TXT'); when it raises, txt_records = [] and
\* the entry is built without spf_record and dmarc_record.
ResolveTXT ==
    /\ op = "analyze_personal_info"
    /\ pc = "txt"
    /\ \E a \in TXTAnswers :
         /\ requests' = Append(requests, Call("dns:TXT:", domain))
         /\ lastDns' = a
         /\ IF a.raised
            THEN /\ dns_info' = DictSet(dns_info, "txt_records", <<>>)
                 /\ domain_analysis' =
                      DomainAnalysis(domain, domain_info, dns_info')
                 /\ pc' = "done"
            ELSE /\ dns_info' =
                      DictSet(DictSet(dns_info, "txt_records", a.records),
                              "spf_record", FirstWith(a.records, "v=spf1"))
                 /\ pc' = "dmarc"
                 /\ UNCHANGED domain_analysis
    /\ UNCHANGED <<scoreVars, objVars, runVars, loopVars, social_profiles, domain_info, lastResp, probeLog,
                   footVars, presVars>>

\* dns.resolver.resolve(f"_dmarc.{domain}", 'TXT') inside its own try, then
\* the domain_analysis entry.
ResolveDMARC ==
    /\ op = "analyze_personal_info"
    /\ pc = "dmarc"
    /\ \E a \in DMARCAnswers :
         /\ requests' = Append(requests,
                Call("dns:TXT:", <<"_", "d", "m", "a", "r", "c", ".">> \o domain))
         /\ lastDns' = a
         /\ dns_info' = DictSet(dns_info, "dmarc_record",
                IF a.raised THEN "None" ELSE FirstWith(a.records, "v=DMARC1"))
         /\ domain_analysis' = DomainAnalysis(domain, domain_info, dns_info')
    /\ pc' = "done"
    /\ UNCHANGED <<scoreVars, objVars, runVars, loopVars, social_profiles, domain_info, lastResp, probeLog,
                   footVars, presVars>>

----------------------------------------------------------------------------
\* analyze_social_footprint

\* The keys of platforms, in insertion order.
FootprintPlatformNames ==
    << "GitHub", "LinkedIn", "Twitter", "Instagram", "Facebook", "Medium",
       "Dev.to", "Stack Overflow" >>

\* platforms[platform] for email e and username u.
FootprintURL(platform, e, u) ==
    CASE platform = "GitHub" -> Call("https://api.github.com/search/users?q=", e)
      [] platform = "LinkedIn" -> Call("https://www.linkedin.com/pub/dir/?email=", e)
      [] platform = "Twitter" -> Call("https://twitter.com/", u)
      [] platform = "Instagram" -> Call("https://www.instagram.com/", u)
      [] platform = "Facebook" -> Call("https://www.facebook.com/", u)
      [] platform = "Medium" -> Call("https://medium.com/@", u)
      [] platform = "Dev.to" -> Call("https://dev.to/", u)
      [] platform = "Stack Overflow" -> Call("https://stackoverflow.com/users/", u)

\* The score is kept in tenths of a point: 12.5 is 125.
\* The footprint dict as initialised.
FootprintInit ==
    [platforms |-> EmptyDict, visibility_score |-> 0, risk_level |-> "Low",
     recommendations |-> <<>>]

\* What one pass of the loop body does to footprint for answer r: an entry
\* with found True and 12.5 points on status 200, an entry with found False
\* when requests.get raised, nothing otherwise.
FootprintAfter(fp, platform, url, r) ==
    IF r.raised
    THEN [fp EXCEPT !.platforms = DictSet(@, platform,
              [found |-> FALSE, status |-> "Not found or private"])]
    ELSE IF r.status_code = 200
    THEN [fp EXCEPT !.platforms = DictSet(@, platform,
              [found |-> TRUE, url |-> url, status |-> "Active"]),
                    !.visibility_score = @ + 125]
    ELSE fp

\* Mutant of FootprintLevel: the thresholds are exclusive.
FootprintLevelStrict(fp) ==
    IF fp.visibility_score > 750
    THEN [fp EXCEPT !.risk_level = "High",
                    !.recommendations = Append(@,
                        "Consider reducing public social media presence")]
    ELSE IF fp.visibility_score > 500
    THEN [fp EXCEPT !.risk_level = "Medium",
                    !.recommendations = Append(@,
                        "Review privacy settings on social media")]
    ELSE [fp EXCEPT !.recommendations = Append(@,
                        "Good privacy practices detected")]

\* The risk level and the recommendation computed after the loop.
FootprintLevel(fp) ==
    IF fp.visibility_score >= 750
    THEN [fp EXCEPT !.risk_level = "High",
                    !.recommendations = Append(@,
                        "Consider reducing public social media presence")]
    ELSE IF fp.visibility_score >= 500
    THEN [fp EXCEPT !.risk_level = "Medium",
                    !.recommendations = Append(@,
                        "Review privacy settings on social media")]
    ELSE [fp EXCEPT !.recommendations = Append(@,
                        "Good privacy practices detected")]

\* One pass of the loop: requests.get(url) and the entry; after the last
\* platform the level is computed and footprint is returned.
FootprintProbe ==
    /\ op = "analyze_social_footprint"
    /\ pc = "probe"
    /\ \E r \in Responses :
         LET platform == FootprintPlatformNames[plat]
             url == FootprintURL(platform, email, username)
             fp == FootprintAfter(footprint, platform, url, r)
         IN  /\ requests' = Append(requests, url)
             /\ probeLog' = Append(probeLog,
                    Probe(platform, 1, r, ~r.raised /\ r.status_code = 200))
             /\ lastResp' = r
             /\ IF plat < Len(FootprintPlatformNames)
                THEN /\ footprint' = fp
                     /\ plat' = plat + 1
                     /\ pc' = "probe"
                ELSE /\ footprint' = FootprintLevel(fp)
                     /\ plat' = plat + 1
                     /\ pc' = "done"
    /\ UNCHANGED <<lastDns, scoreVars, objVars, runVars, cand, infoVars, presVars>>

----------------------------------------------------------------------------
\* analyze_social_presence

\* The keys of platforms, in insertion order.
PresencePlatformNames == << "Twitter", "Instagram", "LinkedIn", "GitHub", "Medium" >>

\* platforms[platform] for email e and username u.
PresenceURLs(platform, e, u) ==
    CASE platform = "Twitter" ->
           << Call("https://twitter.com/", u),
              Call("https://twitter.com/search?q=", e) >>
      [] platform = "Instagram" -> << Call("https://www.instagram.com/", u) >>
      [] platform = "LinkedIn" ->
           << Call("https://www.linkedin.com/search/results/all/?keywords=", e) >>
      [] platform = "GitHub" ->
           << Call("https://github.com/", u),
              Call("https://api.github.com/search/users?q=", e) >>
      [] platform = "Medium" -> << Call("https://medium.com/@", u) >>

\* platform_data as initialised for each platform. sentiment and keywords
\* are "set" once a page was analysed.
PlatformDataInit ==
    [k \in {"urls"} |-> <<>>] @@ [k \in {"sentiment", "keywords"} |-> "empty"]

\* 'api' in url
IsApiURL(url) == url.base = "https://api.github.com/search/users?q="

\* What one pass of the try block does to platform_data for answer r: on
\* status 200 the URL is appended and the page analysed, and for the GitHub
\* API URL response.json() is read (it raises on a body that is not JSON);
\* an exception anywhere in the block sets "errors".
PlatformDataAfter(pd, platform, url, r) ==
    IF r.raised THEN DictSet(pd, "errors", "error")
    ELSE IF r.status_code = 200
    THEN LET analysed ==
                 DictSet(DictSet(DictSet(pd, "urls", Append(pd["urls"], url)),
                                 "sentiment", "set"), "keywords", "set")
         IN  IF platform = "GitHub" /\ IsApiURL(url)
             THEN IF r.rich
                  THEN DictSet(analysed, "profile_data", "set")
                  ELSE DictSet(analysed, "errors", "error")
             ELSE analysed
    ELSE pd

\* One pass of the inner loop; after the platform's last URL its
\* platform_data is kept in social_analysis if it holds a URL; after the
\* last platform social_analysis is returned.
PresenceProbe ==
    /\ op = "analyze_social_presence"
    /\ pc = "probe"
    /\ \E r \in Responses :
         LET platform == PresencePlatformNames[plat]
             urls == PresenceURLs(platform, email, username)
             url == urls[cand]
             pd == PlatformDataAfter(platform_data, platform, url, r)
         IN  /\ requests' = Append(requests, url)
             /\ probeLog' = Append(probeLog,
                    Probe(platform, cand, r, ~r.raised /\ r.status_code = 200))
             /\ lastResp' = r
             /\ IF cand < Len(urls)
                THEN /\ platform_data' = pd
                     /\ cand' = cand + 1
                     /\ UNCHANGED <<plat, pc, social_analysis>>
                ELSE /\ social_analysis' =
                          IF pd["urls"] # <<>>
                          THEN DictSet(social_analysis, platform, pd)
                          ELSE social_analysis
                     /\ platform_data' = PlatformDataInit
                     /\ cand' = 1
                     /\ plat' = plat + 1
                     /\ pc' = IF plat < Len(PresencePlatformNames)
                              THEN "probe" ELSE "done"
    /\ UNCHANGED <<lastDns, scoreVars, objVars, runVars, infoVars, footVars>>

----------------------------------------------------------------------------
\* analyze_email_reputation

RECURSIVE AlphaPrefixLen(_)
\* The length of the longest prefix of s made of [a-zA-Z].
AlphaPrefixLen(s) ==
    IF s = <<>> \/ ~IsAlpha(Head(s)) THEN 0 ELSE 1 + AlphaPrefixLen(Tail(s))

\* re.match(r'^[a-zA-Z]+\.[a-zA-Z]+', u)
MatchesProfessional(u) ==
    LET n == AlphaPrefixLen(u)
    IN  n >= 1 /\ n + 2 <= Len(u) /\ u[n + 1] = "." /\ IsAlpha(u[n + 2])

\* re.match(r'^[a-zA-Z]+$', u)
MatchesSimple(u) == Len(u) >= 1 /\ AlphaPrefixLen(u) = Len(u)

\* bool(re.search(cls, u)) as 0 or 1
HasChar(u, cls) == IF \E x \in 1..Len(u) : u[x] \in cls THEN 1 ELSE 0

\* Mutant of CharTypes: every class is counted twice.
CharTypesDouble(u) ==
    2 * (HasChar(u, LowerChars) + HasChar(u, UpperChars) + HasChar(u, DigitChars)
            + HasChar(u, {".", "_", "-"}))

\* The four character classes that are counted.
CharTypes(u) ==
    HasChar(u, LowerChars) + HasChar(u, UpperChars) + HasChar(u, DigitChars)
        + HasChar(u, {".", "_", "-"})

\* An entry of factors: its text and the number formatted into it.
Factor(text, n) == [text |-> text, n |-> n]

\* Mutant of DomainAgeAged: the comparison is turned round.
DomainAgeYoung(w) ==
    /\ ~w.raised
    /\ w.dates # <<>>
    /\ CreationDate(w)[1] < 365

\* The domain-age rule: 20 points when whois answered with a creation date
\* more than 365 days old; nothing when it raised or gave no date.
DomainAgeAged(w) ==
    /\ ~w.raised
    /\ w.dates # <<>>
    /\ CreationDate(w)[1] > 365

\* reputation_score before the clamp.
ReputationScore(u, w) ==
    (IF DomainAgeAged(w) THEN 20 ELSE 0)
    + (IF MatchesProfessional(u) THEN 15 ELSE IF MatchesSimple(u) THEN 10 ELSE 0)
    + (IF 6 <= Len(u) /\ Len(u) <= 24 THEN 10 ELSE 0)
    + CharTypes(u) * 5

\* factors, in the order the rules are applied.
ReputationFactors(u, w) ==
    (IF DomainAgeAged(w) THEN <<Factor("Domain age", CreationDate(w)[1])>> ELSE <<>>)
    \o (IF MatchesProfessional(u) THEN <<Factor("Professional email pattern", 0)>>
        ELSE IF MatchesSimple(u) THEN <<Factor("Simple email pattern", 0)>>
        ELSE <<>>)
    \o (IF 6 <= Len(u) /\ Len(u) <= 24 THEN <<Factor("Appropriate length", 0)>> ELSE <<>>)
    \o <<Factor("Character variety", CharTypes(u))>>

\* The dict analyze_email_reputation returns for username u and whois answer w.
Reputation(u, w) ==
    LET score == ReputationScore(u, w)
    IN  [score |-> IF score < 100 THEN score ELSE 100,
         factors |-> ReputationFactors(u, w),
         risk_level |-> IF score > 70 THEN "Low"
                        ELSE IF score > 40 THEN "Medium" ELSE "High"]

----------------------------------------------------------------------------
\* analyze_personal_info: the identity derived from the username

LowerSeq ==
    << "a", "b", "c", "d", "e", "f", "g", "h", "i", "j", "k", "l", "m",
       "n", "o", "p", "q", "r", "s", "t", "u", "v", "w", "x", "y", "z">>

UpperSeq ==
    << "A", "B", "C", "D", "E", "F", "G", "H", "I", "J", "K", "L", "M",
       "N", "O", "P", "Q", "R", "S", "T", "U", "V", "W", "X", "Y", "Z">>

\* The place of a letter in the alphabet.
LetterIndex(seq, ch) == CHOOSE i \in 1..Len(seq) : seq[i] = ch

\* str.upper() and str.lower() on one character.
ToUpper(ch) == IF ch \in LowerChars THEN UpperSeq[LetterIndex(LowerSeq, ch)] ELSE ch
ToLower(ch) == IF ch \in UpperChars THEN LowerSeq[LetterIndex(UpperSeq, ch)] ELSE ch

\* str.capitalize(): the first character upper-cased, the others lower-cased.
Capitalize(t) ==
    [i \in 1..Len(t) |-> IF i = 1 THEN ToUpper(t[i]) ELSE ToLower(t[i])]

\* (19|20)\d{2} matches part at place i.
IsYearAt(part, i) ==
    /\ i + 3 <= Len(part)
    /\ \/ part[i] = "1" /\ part[i + 1] = "9"
       \/ part[i] = "2" /\ part[i + 1] = "0"
    /\ part[i + 2] \in DigitChars
    /\ part[i + 3] \in DigitChars

\* re.search(r'(19|20)\d{2}', part) is not None
HasYear(part) == \E i \in 1..Len(part) : IsYearAt(part, i)

\* year_match.group(): the leftmost match.
YearMatch(part) ==
    LET i == CHOOSE k \in 1..Len(part) :
                 IsYearAt(part, k) /\ \A m \in 1..(k - 1) : ~IsYearAt(part, m)
    IN  SubSeq(part, i, i + 3)

RECURSIVE RemoveAll(_, _)
\* t.replace(sub, ''): every occurrence, left to right, without overlap.
RemoveAll(t, sub) ==
    IF Len(t) < Len(sub) THEN t
    ELSE IF SubSeq(t, 1, Len(sub)) = sub
         THEN RemoveAll(SubSeq(t, Len(sub) + 1, Len(t)), sub)
    ELSE <<Head(t)>> \o RemoveAll(Tail(t), sub)

\* re.sub(r'[0-9_]', '', t)
StripDigitsUnderscore(t) ==
    SelectSeq(t, LAMBDA ch : ch \notin DigitChars \cup {"_"})

\* cleaned_part: the part without its year match, digits and underscores.
CleanedPart(part) ==
    StripDigitsUnderscore(
        IF HasYear(part) THEN RemoveAll(part, YearMatch(part)) ELSE part)

RECURSIVE NameParts(_)
\* name_parts after the loop over username_parts.
NameParts(parts) ==
    IF parts = <<>> THEN <<>>
    ELSE (IF CleanedPart(Head(parts)) # <<>>
          THEN <<Capitalize(CleanedPart(Head(parts)))>> ELSE <<>>)
         \o NameParts(Tail(parts))

RECURSIVE BirthYear(_, _)
\* possible_birth_year after the loop: every part with a match assigns it.
\* <<>> stands for an absent key.
BirthYear(parts, year) ==
    IF parts = <<>> THEN year
    ELSE BirthYear(Tail(parts),
                   IF HasYear(Head(parts)) THEN YearMatch(Head(parts)) ELSE year)

\* personal_info["basic_info"] for username u; last is <<>> for None.
BasicInfo(u) ==
    LET parts == Split(u, ".")
        names == NameParts(parts)
        year == BirthYear(parts, <<>>)
    IN  (IF year # <<>> THEN "possible_birth_year" :> year ELSE EmptyDict)
        @@ (IF names # <<>>
            THEN "possible_name" :>
                   [first |-> names[1],
                    last |-> IF Len(names) > 1 THEN names[Len(names)] ELSE <<>>,
                    full |-> Join(names, " ")]
            ELSE EmptyDict)

\* The derivation at the head of analyze_personal_info and the catalogue of
\* candidates; the probing loop follows.
DeriveIdentity ==
    /\ op = "analyze_personal_info"
    /\ pc = "start"
    /\ basic_info' = BasicInfo(username)
    /\ social_platforms' =
         [platform \in {SocialPlatformNames[i] : i \in 1..Len(SocialPlatformNames)}
            |-> SocialPlatformURLs(platform, username)]
    /\ pc' = "probe"
    /\ UNCHANGED <<objVars, runVars, loopVars, infoVars, footVars, presVars,
                   netVars, lastDns, reputation, professional, risks, risk_level>>

----------------------------------------------------------------------------
\* analyze_professional_score

\* '.' in username, two parts, each longer than 2.
FullNameFormat(u) ==
    /\ \E x \in 1..Len(u) : u[x] = "."
    /\ Len(Split(u, ".")) = 2
    /\ \A i \in 1..Len(Split(u, ".")) : Len(Split(u, ".")[i]) > 2

ProfessionalDomains ==
    { <<"g", "m", "a", "i", "l", ".", "c", "o", "m">>,
      <<"o", "u", "t", "l", "o", "o", "k", ".", "c", "o", "m">>,
      <<"y", "a", "h", "o", "o", ".", "c", "o", "m">>,
      <<"i", "c", "l", "o", "u", "d", ".", "c", "o", "m">> }

\* re.match(r'^[a-zA-Z0-9._-]+$', u)
CleanCharacters(u) ==
    /\ Len(u) >= 1
    /\ \A x \in 1..Len(u) :
         u[x] \in LowerChars \cup UpperChars \cup DigitChars \cup {".", "_", "-"}

\* not any(c.isdigit() for c in u)
NoDigits(u) == \A x \in 1..Len(u) : u[x] \notin DigitChars

\* The five rules in the order they are applied: the points and the factor.
ProfessionalRules(u, d) ==
    (IF FullNameFormat(u)
     THEN <<[points |-> 25, factor |-> "Full name format (firstname.lastname)"]>>
     ELSE <<>>)
    \o (IF d \in ProfessionalDomains
        THEN <<[points |-> 15, factor |-> "Professional domain"]>> ELSE <<>>)
    \o (IF 6 <= Len(u) /\ Len(u) <= 30
        THEN <<[points |-> 10, factor |-> "Appropriate length"]>> ELSE <<>>)
    \o (IF CleanCharacters(u)
        THEN <<[points |-> 15, factor |-> "Clean character usage"]>> ELSE <<>>)
    \o (IF NoDigits(u)
        THEN <<[points |-> 15, factor |-> "No numeric characters"]>> ELSE <<>>)

RECURSIVE SumPoints(_)
SumPoints(rules) ==
    IF rules = <<>> THEN 0 ELSE Head(rules).points + SumPoints(Tail(rules))

\* The dict analyze_professional_score returns.
Professional(u, d) ==
    LET rules == ProfessionalRules(u, d)
        score == SumPoints(rules)
    IN  [score |-> score,
         factors |-> [i \in 1..Len(rules) |-> rules[i].factor],
         level |-> IF score >= 70 THEN "High"
                   ELSE IF score >= 40 THEN "Medium" ELSE "Low"]

ProfessionalScore ==
    /\ op = "analyze_professional_score"
    /\ pc = "start"
    /\ professional' = Professional(username, domain)
    /\ pc' = "done"
    /\ UNCHANGED <<objVars, runVars, loopVars, infoVars, footVars, presVars,
                   netVars, lastDns, reputation, risks, risk_level, basic_info,
                   social_platforms>>

----------------------------------------------------------------------------
\* analyze_security_risks

\* len(self.username) < 6: the flag is added and the level set to Medium.
SecurityShort ==
    /\ op = "analyze_security_risks"
    /\ pc = "start"
    /\ IF Len(username) < 6
       THEN /\ risks' = Append(risks, "Short username (easier to guess)")
            /\ risk_level' = "Medium"
       ELSE UNCHANGED <<risks, risk_level>>
    /\ pc' = "digits"
    /\ UNCHANGED <<objVars, runVars, loopVars, infoVars, footVars, presVars,
                   netVars, lastDns, reputation, professional, basic_info,
                   social_platforms>>

\* any(c.isdigit() for c in self.username): the flag is added.
SecurityDigits ==
    /\ op = "analyze_security_risks"
    /\ pc = "digits"
    /\ risks' = IF NoDigits(username) THEN risks
                ELSE Append(risks, "Contains numbers (potential birth year/date)")
    /\ pc' = "dot"
    /\ UNCHANGED <<objVars, runVars, loopVars, infoVars, footVars, presVars,
                   netVars, lastDns, reputation, professional, risk_level,
                   basic_info,
                   social_platforms>>

\* '.' in self.username: the flag is added and the level set to Medium.
SecurityDot ==
    /\ op = "analyze_security_risks"
    /\ pc = "dot"
    /\ IF \E x \in 1..Len(username) : username[x] = "."
       THEN /\ risks' = Append(risks, "Contains full name (potential privacy concern)")
            /\ risk_level' = "Medium"
       ELSE UNCHANGED <<risks, risk_level>>
    /\ pc' = "whois"
    /\ UNCHANGED <<objVars, runVars, loopVars, infoVars, footVars, presVars,
                   netVars, lastDns, reputation, professional, basic_info,
                   social_platforms>>

\* The domain is less than one year old: whois answered with a creation date
\* less than 365 days old.
DomainYoung(w) ==
    /\ ~w.raised
    /\ w.dates # <<>>
    /\ CreationDate(w)[1] < 365

\* Mutant of SecurityWhoisLevel: a domain that is not young resets the level.
SecurityWhoisLevelReset(level, w) ==
    IF w.raised THEN "Medium" ELSE IF DomainYoung(w) THEN "High" ELSE "Low"

\* risk_level after the try block around whois.whois.
SecurityWhoisLevel(level, w) ==
    IF w.raised THEN "Medium" ELSE IF DomainYoung(w) THEN "High" ELSE level

\* risks after the try block around whois.whois.
SecurityWhoisRisks(rs, w) ==
    IF w.raised THEN Append(rs, "Unable to verify domain age")
    ELSE IF DomainYoung(w) THEN Append(rs, "Domain less than 1 year old")
    ELSE rs

\* recommendations of the returned dict.
SecurityRecommendations(rs) ==
    IF rs # <<>>
    THEN << "Use 2FA where available",
            "Avoid using personal information in email",
            "Consider using an email alias for public services" >>
    ELSE << "Good security practices detected" >>

\* The try block around whois.whois(self.domain), w kept in domain_info, and
\* the return.
SecurityWhois ==
    /\ op = "analyze_security_risks"
    /\ pc = "whois"
    /\ \E w \in ScoreWhoisAnswers :
         /\ requests' = Append(requests, Call("whois:", domain))
         /\ domain_info' = w
         /\ risks' = SecurityWhoisRisks(risks, w)
         /\ risk_level' = SecurityWhoisLevel(risk_level, w)
    /\ pc' = "done"
    /\ UNCHANGED <<objVars, runVars, loopVars, social_profiles, dns_info,
                   domain_analysis, footVars, presVars, probeLog, lastResp,
                   lastDns, reputation, professional, basic_info,
                   social_platforms>>

----------------------------------------------------------------------------
\* main and run_investigation

\* The argument vectors main is started with in the model: sys.argv[1:].
ArgVectors ==
    { <<>>,
      << <<"j", "d">> >>,
      << <<"j", "@", "x">> >>,
      << <<"j", "d", "@", "x", ".", "c">> >>,
      << <<"j", ".", "d", "@", "x", ".", "c">> >>,
      << <<"j", "d", "@", "x", ".", "c">>, <<"j", "d", "@", "x", ".", "c">> >> }

\* The descriptions of tasks, which are the keys of self.results.
TaskDescs ==
    << "Analyzing name patterns...", "Calculating reputation score...",
       "Investigating social presence...", "Gathering personal information..." >>

\* Mutant of ConfidenceAfter: the min is missing.
ConfidenceAfterUnclamped(c) == c + 33

\* stats["confidence"] = min(100, stats["confidence"] + 33)
ConfidenceAfter(c) == IF c + 33 < 100 THEN c + 33 ELSE 100

\* The try block of the task loop for a task that returned.
TaskDone(t) ==
    /\ results' = results \cup {TaskDescs[t]}
    /\ confidence' = ConfidenceAfter(confidence)

RECURSIVE Flatten(_)
Flatten(ss) == IF ss = <<>> THEN <<>> ELSE Head(ss) \o Flatten(Tail(ss))

\* The URLs analyze_social_presence requests, in order: every URL of every
\* platform, whatever the answers are.
AllPresenceURLs(e, u) ==
    Flatten([i \in 1..Len(PresencePlatformNames) |->
                PresenceURLs(PresencePlatformNames[i], e, u)])

\* main: the argument count, the shape of the email, SherlockMail(email),
\* and the start of run_investigation.
Main ==
    /\ op = "main"
    /\ pc = "start"
    /\ IF Len(argv) # 1 \/ ~EmailMatches(argv[1])
       THEN /\ exit_code' = "1"
            /\ pc' = "exited"
            /\ UNCHANGED <<email, username, domain, op, task>>
       ELSE /\ email' = argv[1]
            /\ username' = UsernameOf(argv[1])
            /\ domain' = DomainOf(argv[1])
            /\ op' = "run_investigation"
            /\ pc' = "task"
            /\ task' = 1
            /\ UNCHANGED exit_code
    /\ UNCHANGED <<lastDns, scoreVars, caller, argv, results, confidence, crash, saved,
                   loopVars, infoVars, footVars, presVars, netVars>>

\* Task 1, analyze_name_patterns: the language pipeline returns or raises;
\* the except clause of the loop prints the error and continues.
TaskNamePatterns ==
    /\ op = "run_investigation"
    /\ pc = "task"
    /\ task = 1
    /\ \E nlpOk \in BOOLEAN :
         IF nlpOk THEN TaskDone(1) ELSE UNCHANGED <<results, confidence>>
    /\ task' = 2
    /\ UNCHANGED <<lastDns, scoreVars, objVars, caller, argv, exit_code, crash, saved, pc,
                   loopVars, infoVars, footVars, presVars, netVars>>

\* Task 2, analyze_email_reputation: one WHOIS lookup inside its own try;
\* whatever the answer, the task returns its dict.
TaskReputation ==
    /\ op = "run_investigation"
    /\ pc = "task"
    /\ task = 2
    /\ \E w \in WhoisAnswers :
         requests' = Append(requests, Call("whois:", domain))
    /\ TaskDone(2)
    /\ task' = 3
    /\ UNCHANGED <<lastDns, scoreVars, objVars, caller, argv, exit_code, crash, saved, pc,
                   loopVars, infoVars, footVars, presVars, lastResp, probeLog>>

\* Task 3, analyze_social_presence as one step: it requests every URL.
TaskSocialPresence ==
    /\ op = "run_investigation"
    /\ pc = "task"
    /\ task = 3
    /\ requests' = requests \o AllPresenceURLs(email, username)
    /\ TaskDone(3)
    /\ task' = 4
    /\ UNCHANGED <<lastDns, scoreVars, objVars, caller, argv, exit_code, crash, saved, pc,
                   loopVars, infoVars, footVars, presVars, lastResp, probeLog>>

\* Task 4: the call of analyze_personal_info.
TaskPersonalInfo ==
    /\ op = "run_investigation"
    /\ pc = "task"
    /\ task = 4
    /\ op' = "analyze_personal_info"
    /\ pc' = "probe"
    /\ plat' = 1
    /\ cand' = 1
    /\ UNCHANGED <<lastDns, scoreVars, email, username, domain, runVars, infoVars, footVars,
                   presVars, netVars>>

\* analyze_personal_info returned to the task loop, which ends. The callee's
\* local response is gone.
PersonalInfoReturn ==
    /\ op = "analyze_personal_info"
    /\ caller = "run_investigation"
    /\ pc = "done"
    /\ TaskDone(4)
    /\ op' = "run_investigation"
    /\ pc' = "report"
    /\ task' = 5
    /\ lastResp' = RespTimeout
    /\ lastDns' = NoDns
    /\ probeLog' = <<>>
    /\ UNCHANGED <<scoreVars, email, username, domain, caller, argv, exit_code,
                   crash, saved, loopVars, infoVars, footVars, presVars, requests>>

\* create_investigation_report: analyze_name_patterns, analyze_email_reputation
\* and analyze_social_presence are called again, outside any try.
CreateReport ==
    /\ op = "run_investigation"
    /\ pc = "report"
    /\ \E nlpOk \in BOOLEAN, w \in WhoisAnswers :
         IF nlpOk
         THEN /\ requests' = Append(requests, Call("whois:", domain))
                                \o AllPresenceURLs(email, username)
              /\ pc' = "save"
              /\ UNCHANGED <<exit_code, crash>>
         ELSE /\ crash' = "nlp"
              /\ exit_code' = "1"
              /\ pc' = "exited"
              /\ UNCHANGED requests
    /\ UNCHANGED <<lastDns, scoreVars, objVars, caller, argv, task, results, confidence, saved,
                   loopVars, infoVars, footVars, presVars, lastResp, probeLog>>

\* open(filename, 'w') and json.dump, outside any try; then main returns.
SaveReport ==
    /\ op = "run_investigation"
    /\ pc = "save"
    /\ \E written \in BOOLEAN :
         IF written
         THEN /\ saved' = TRUE
              /\ exit_code' = "0"
              /\ UNCHANGED crash
         ELSE /\ crash' = "io"
              /\ exit_code' = "1"
              /\ UNCHANGED saved
    /\ pc' = "exited"
    /\ UNCHANGED <<lastDns, scoreVars, objVars, caller, argv, task, results, confidence,
                   loopVars, infoVars, footVars, presVars, netVars>>

----------------------------------------------------------------------------
\* Specification: one of the operations is called on a constructed object.

\* What is the same at the start of every specification.
Fresh ==
    /\ task = 0
    /\ results = {}
    /\ confidence = 0
    /\ exit_code = "running"
    /\ crash = "none"
    /\ saved = FALSE
    /\ plat = 1
    /\ cand = 1
    /\ social_profiles = EmptyDict
    /\ domain_info = Whois(FALSE, <<>>, FALSE)
    /\ dns_info = EmptyDict
    /\ domain_analysis = EmptyDict
    /\ footprint = FootprintInit
    /\ platform_data = PlatformDataInit
    /\ social_analysis = EmptyDict
    /\ requests = <<>>
    /\ probeLog = <<>>
    /\ lastResp = RespTimeout
    /\ lastDns = NoDns
    /\ reputation = EmptyDict
    /\ professional = EmptyDict
    /\ risks = <<>>
    /\ risk_level = "Low"
    /\ basic_info = EmptyDict
    /\ social_platforms = EmptyDict

Init ==
    /\ email \in Emails
    /\ username = UsernameOf(email)
    /\ domain = DomainOf(email)
    /\ op \in {"analyze_personal_info", "analyze_social_footprint",
               "analyze_social_presence"}
    /\ caller = "api"
    /\ argv = <<>>
    /\ pc = "probe"
    /\ Fresh

Next ==
    \/ ProbeSkipNone
    \/ ProbeCandidate
    \/ LookupWhois
    \/ ResolveMX
    \/ ResolveTXT
    \/ ResolveDMARC
    \/ FootprintProbe
    \/ PresenceProbe

Spec == Init /\ [][Next]_vars

\* Specification: the program is started from the command line.

InitRun ==
    /\ argv \in ArgVectors
    /\ email = <<>>
    /\ username = <<>>
    /\ domain = <<>>
    /\ op = "main"
    /\ caller = "run_investigation"
    /\ pc = "start"
    /\ Fresh

NextRun ==
    \/ Main
    \/ TaskNamePatterns
    \/ TaskReputation
    \/ TaskSocialPresence
    \/ TaskPersonalInfo
    \/ ProbeSkipNone
    \/ ProbeCandidate
    \/ LookupWhois
    \/ ResolveMX
    \/ ResolveTXT
    \/ ResolveDMARC
    \/ PersonalInfoReturn
    \/ CreateReport
    \/ SaveReport

SpecRun == InitRun /\ [][NextRun]_vars

----------------------------------------------------------------------------
\* Specification: one of the scoring operations, or the identity derivation
\* of analyze_personal_info, is called on a constructed object.

\* The emails the scoring operations are called with in the model:
\* jd@x.c, johndoe@gmail.com, john.doe@gmail.com, a.b.c@x.c,
\* john.doe2019@example.com, john1990.doe2001@x.c, first_last@x.c,
\* first-last@x.c, jo1.doe@x.c, john.123@x.c, J.d9@x.c, 2019@x.c,
\* John.doe9@x.c.
ScoreEmails ==
    { <<"j", "d", "@", "x", ".", "c">>,
      <<"j", "o", "h", "n", "d", "o", "e", "@", "g", "m", "a", "i", "l", ".", "c", "o", "m">>,
      <<"j", "o", "h", "n", ".", "d", "o", "e", "@", "g", "m", "a", "i", "l", ".", "c", "o", "m">>,
      <<"a", ".", "b", ".", "c", "@", "x", ".", "c">>,
      <<"j", "o", "h", "n", ".", "d", "o", "e", "2", "0", "1", "9", "@", "e", "x", "a", "m", "p", "l", "e", ".", "c", "o", "m">>,
      <<"j", "o", "h", "n", "1", "9", "9", "0", ".", "d", "o", "e", "2", "0", "0", "1", "@", "x", ".", "c">>,
      <<"f", "i", "r", "s", "t", "_", "l", "a", "s", "t", "@", "x", ".", "c">>,
      <<"f", "i", "r", "s", "t", "-", "l", "a", "s", "t", "@", "x", ".", "c">>,
      <<"j", "o", "1", ".", "d", "o", "e", "@", "x", ".", "c">>,
      <<"j", "o", "h", "n", ".", "1", "2", "3", "@", "x", ".", "c">>,
      <<"J", ".", "d", "9", "@", "x", ".", "c">>,
      <<"2", "0", "1", "9", "@", "x", ".", "c">>,
      <<"J", "o", "h", "n", ".", "d", "o", "e", "9", "@", "x", ".", "c">> }

ScoreOps ==
    {"analyze_email_reputation", "analyze_professional_score",
     "analyze_security_risks", "analyze_personal_info"}

\* analyze_email_reputation, with w = whois.whois(self.domain) kept in
\* domain_info.
EmailReputation ==
    /\ op = "analyze_email_reputation"
    /\ pc = "start"
    /\ \E w \in ScoreWhoisAnswers :
         /\ requests' = Append(requests, Call("whois:", domain))
         /\ domain_info' = w
         /\ reputation' = Reputation(username, w)
    /\ pc' = "done"
    /\ UNCHANGED <<objVars, runVars, loopVars, social_profiles, dns_info,
                   domain_analysis, footVars, presVars, probeLog, lastResp,
                   lastDns, professional, risks, risk_level, basic_info,
                   social_platforms>>

InitScore ==
    /\ email \in ScoreEmails
    /\ username = UsernameOf(email)
    /\ domain = DomainOf(email)
    /\ op \in ScoreOps
    /\ caller = "api"
    /\ argv = <<>>
    /\ pc = "start"
    /\ Fresh

NextScore ==
    \/ EmailReputation
    \/ ProfessionalScore
    \/ SecurityShort
    \/ SecurityDigits
    \/ SecurityDot
    \/ SecurityWhois
    \/ DeriveIdentity

SpecScore == InitScore /\ [][NextScore]_vars

----------------------------------------------------------------------------
\* Properties

\* The elements of a sequence.
Range(seq) == {seq[i] : i \in 1..Len(seq)}

Last(seq) == seq[Len(seq)]

\* The probes of one platform, in the order they were issued.
LogOf(platform) == SelectSeq(probeLog, LAMBDA e : e.platform = platform)

\* The places of a candidate list that hold a URL, in declared order.
URLRanks(urls) ==
    SelectSeq([k \in 1..Len(urls) |-> k], LAMBDA k : urls[k] # NoneURL)

\* The place of a platform in the catalogue of analyze_personal_info.
CatalogueIndex(platform) ==
    CHOOSE i \in 1..Len(SocialPlatformNames) : SocialPlatformNames[i] = platform

InPersonalInfo == op = "analyze_personal_info"
InFootprint == op = "analyze_social_footprint"
InPresence == op = "analyze_social_presence"

\* C1: in the profile probing of analyze_personal_info, platforms are taken
\* in catalogue order and each platform's candidates are requested in their
\* declared order; a platform has an entry exactly when one of its probes
\* was taken as a match, the entry's URL is the first such candidate, and no
\* candidate of the platform is requested after it.
C1_FirstMatchWins ==
    InPersonalInfo =>
      /\ \A j \in 1..Len(probeLog) :
           /\ requests[j] =
                SocialPlatformURLs(probeLog[j].platform, username)[probeLog[j].rank]
           /\ j > 1 => CatalogueIndex(probeLog[j - 1].platform)
                          <= CatalogueIndex(probeLog[j].platform)
      /\ \A i \in 1..Len(ProbedPlatforms) :
           LET platform == ProbedPlatforms[i]
               urls == SocialPlatformURLs(platform, username)
               log == LogOf(platform)
           IN  /\ Len(log) <= Len(URLRanks(urls))
               /\ \A k \in 1..Len(log) :
                    /\ log[k].rank = URLRanks(urls)[k]
                    /\ log[k].matched => k = Len(log)
               /\ platform \in DOMAIN social_profiles
                    <=> (log # <<>> /\ Last(log).matched)
               /\ platform \in DOMAIN social_profiles
                    => social_profiles[platform].url = urls[Last(log).rank]

\* C1 witness: the second LinkedIn candidate matched after the first did
\* not, and the third candidate, a URL, was never requested.
C1_Witness ==
    /\ InPersonalInfo
    /\ pc = "done"
    /\ "LinkedIn" \in DOMAIN social_profiles
    /\ LET urls == SocialPlatformURLs("LinkedIn", username)
       IN  /\ social_profiles["LinkedIn"].url = urls[2]
           /\ urls[3] # NoneURL
           /\ Len(LogOf("LinkedIn")) = 2
           /\ ~LogOf("LinkedIn")[1].matched

\* C2: once probing has finished, the result mapping holds one entry for
\* every platform of the catalogue, with found false for a platform without
\* a match, in analyze_personal_info and in analyze_social_footprint.
C2_OneEntryPerPlatform ==
    /\ (InPersonalInfo /\ pc # "probe")
         => DOMAIN social_profiles = Range(ProbedPlatforms)
    /\ (InFootprint /\ pc = "done")
         => /\ DOMAIN footprint.platforms = Range(FootprintPlatformNames)
            /\ \A e \in Range(probeLog) :
                 ~e.matched => ~footprint.platforms[e.platform].found

\* Every probe of the platform was issued and raised.
AllTimedOut(platform) ==
    /\ LogOf(platform) # <<>>
    /\ \A e \in Range(LogOf(platform)) : e.raised

\* C3: when an operation has returned, a platform whose every request timed
\* out has a result with found false and a non-empty error.
C3_TimeoutRecorded ==
    pc = "done" =>
      /\ InPersonalInfo =>
           \A platform \in Range(ProbedPlatforms) :
             AllTimedOut(platform) =>
               /\ platform \in DOMAIN social_profiles
               /\ "error" \in DOMAIN social_profiles[platform]
      /\ InFootprint =>
           \A platform \in Range(FootprintPlatformNames) :
             AllTimedOut(platform) =>
               /\ platform \in DOMAIN footprint.platforms
               /\ ~footprint.platforms[platform].found
               /\ "error" \in DOMAIN footprint.platforms[platform]
      /\ InPresence =>
           \A platform \in Range(PresencePlatformNames) :
             AllTimedOut(platform) =>
               /\ platform \in DOMAIN social_analysis
               /\ "errors" \in DOMAIN social_analysis[platform]

\* C4: in every result of the three probing operations, found (a recorded
\* URL, status Found) implies that the URL is set and that no error is
\* recorded on the same platform result.
C4_FoundHasURLAndNoError ==
    /\ \A platform \in DOMAIN social_profiles :
         social_profiles[platform].status = "Found"
           => /\ social_profiles[platform].url # NoneURL
              /\ "error" \notin DOMAIN social_profiles[platform]
    /\ \A platform \in DOMAIN footprint.platforms :
         footprint.platforms[platform].found
           => /\ "url" \in DOMAIN footprint.platforms[platform]
              /\ "error" \notin DOMAIN footprint.platforms[platform]
    /\ \A platform \in DOMAIN social_analysis :
         social_analysis[platform]["urls"] # <<>>
           => "errors" \notin DOMAIN social_analysis[platform]

\* The rule of the claim: status 200 and none of the negative markers in the
\* title or in the body.
IsPositiveMatch(r) ==
    /\ ~r.raised
    /\ r.status_code = 200
    /\ (TitleTerms(r) \cup r.body_terms) \cap NegativeTerms = {}

\* C5: in analyze_personal_info and analyze_social_footprint a candidate is
\* treated as a positive match exactly when its answer has status 200 and
\* neither the title nor the body contains a negative marker.
C5_PositiveMatchRule ==
    ((InPersonalInfo \/ InFootprint) /\ probeLog # <<>>)
      => (Last(probeLog).matched <=> IsPositiveMatch(lastResp))

\* main refused its arguments.
ValidationFailed == Len(argv) # 1 \/ ~EmailMatches(argv[1])

C7_NoRepeatedCall ==
    \A i, j \in 1..Len(requests) : i # j => requests[i] # requests[j]

PlatformAt(names) == IF plat <= Len(names) THEN {names[plat]} ELSE {}

C9_WhoisFailureKeepsDNS ==
    (InPersonalInfo /\ pc = "done") =>
      /\ {"dns_info", "email_security"} \subseteq DOMAIN domain_analysis
      /\ Call("dns:MX:", domain) \in Range(requests)

\* C10: when the WHOIS lookup succeeded, the DMARC lookup on _dmarc.<domain>
\* is performed and has_dmarc reflects it, whether the TXT lookup on the
\* domain succeeded or failed.
C10_DmarcIndependentOfTxt ==
    (InPersonalInfo /\ pc = "done" /\ "dns_info" \in DOMAIN domain_analysis) =>
      /\ Call("dns:TXT:", <<"_", "d", "m", "a", "r", "c", ".">> \o domain)
           \in Range(requests)
      /\ "dmarc_record" \in DOMAIN domain_analysis.dns_info
      /\ domain_analysis.email_security.has_dmarc
           <=> domain_analysis.dns_info["dmarc_record"] # "None"

\* The lookup on _dmarc.<domain>.
DmarcCall == Call("dns:TXT:", <<"_", "d", "m", "a", "r", "c", ".">> \o domain)

\* C11: in every domain profile, has_spf is true only if some TXT record of
\* the domain contains 'v=spf1', and has_dmarc is true only if the lookup on
\* _dmarc.<domain> returned a record containing 'v=DMARC1'; when that lookup
\* raises, has_dmarc is false and the profile carries no error.
C11_SecurityFlagsSound ==
    (InPersonalInfo /\ pc = "done" /\ "email_security" \in DOMAIN domain_analysis) =>
      LET sec == domain_analysis.email_security
          dns == domain_analysis.dns_info
      IN  /\ sec.has_spf =>
               \E r \in Range(dns["txt_records"]) : Contains(r, "v=spf1")
          /\ sec.has_dmarc =>
               /\ Last(requests) = DmarcCall
               /\ ~lastDns.raised
               /\ \E r \in Range(lastDns.records) : Contains(r, "v=DMARC1")
          /\ (Last(requests) = DmarcCall /\ lastDns.raised) =>
               /\ ~sec.has_dmarc
               /\ dns["dmarc_record"] = "None"
               /\ "error" \notin DOMAIN domain_analysis

\* C11 witness: the domain publishes an SPF record, the DMARC lookup raised,
\* and the profile reports has_spf without has_dmarc.
C11_Witness ==
    /\ InPersonalInfo
    /\ pc = "done"
    /\ "email_security" \in DOMAIN domain_analysis
    /\ Last(requests) = DmarcCall
    /\ lastDns.raised
    /\ domain_analysis.email_security.has_spf
    /\ ~domain_analysis.email_security.has_dmarc

InReputation == op = "analyze_email_reputation"

\* The parts of the username between dots.
Fragments(u) == Split(u, ".")

\* The shape the +15 rule is stated for: exactly two alphabetic fragments.
TwoAlphaFragments(u) ==
    /\ Len(Fragments(u)) = 2
    /\ \A i \in 1..2 :
         /\ Fragments(u)[i] # <<>>
         /\ \A x \in 1..Len(Fragments(u)[i]) : IsAlpha(Fragments(u)[i][x])

Min(a, b) == IF a < b THEN a ELSE b

\* The score as the rules are stated.
StatedReputationScore(u, w) ==
    Min(100,
        (IF DomainAgeAged(w) THEN 20 ELSE 0)
        + (IF TwoAlphaFragments(u) THEN 15 ELSE IF MatchesSimple(u) THEN 10 ELSE 0)
        + (IF 6 <= Len(u) /\ Len(u) <= 24 THEN 10 ELSE 0)
        + CharTypes(u) * 5)

\* The number of rules that fire, as the rules are stated.
StatedReputationRules(u, w) ==
    (IF DomainAgeAged(w) THEN 1 ELSE 0)
    + (IF TwoAlphaFragments(u) \/ MatchesSimple(u) THEN 1 ELSE 0)
    + (IF 6 <= Len(u) /\ Len(u) <= 24 THEN 1 ELSE 0)
    + (IF CharTypes(u) > 0 THEN 1 ELSE 0)

\* C12: the reputation score is min(100, 20 for a domain older than 365 days
\* + 15 for a username of exactly two alphabetic fragments, else 10 for a
\* single alphabetic token + 10 for a length in [6,24] + 5 per character
\* class present), the factors list has one entry per rule that fired, and
\* the 'Professional email pattern' factor is there only for a username of
\* exactly two alphabetic fragments and never with 'Simple email pattern'.
C12_ReputationScoreAsStated ==
    (InReputation /\ pc = "done") =>
      /\ reputation.score = StatedReputationScore(username, domain_info)
      /\ Len(reputation.factors) = StatedReputationRules(username, domain_info)
      /\ Factor("Professional email pattern", 0) \in Range(reputation.factors)
           => /\ TwoAlphaFragments(username)
              /\ Factor("Simple email pattern", 0) \notin Range(reputation.factors)

\* C13: the level returned with the reputation score is High when the score
\* is above 70, Medium when it is above 40 and at most 70, Low otherwise.
C13_ReputationLevelScale ==
    (InReputation /\ pc = "done") =>
      reputation.risk_level =
        IF reputation.score > 70 THEN "High"
        ELSE IF reputation.score > 40 THEN "Medium" ELSE "Low"

\* Whether the answer gives the domain an age, and the age.
HasAge(w) == ~w.raised /\ w.dates # <<>>
AgeOf(w) == CreationDate(w)[1]

\* C14: for the username of the call and two whois answers that give the
\* domain an age, the score with the larger age is never smaller than the
\* score with the smaller age, and it is larger by exactly 20 when the ages
\* lie on opposite sides of the 365-day boundary.
C14_MonotoneInDomainAge ==
    (InReputation /\ pc = "done" /\ HasAge(domain_info)) =>
      \A w \in ScoreWhoisAnswers :
        (HasAge(w) /\ AgeOf(w) >= AgeOf(domain_info)) =>
          /\ Reputation(username, w).score >= reputation.score
          /\ (AgeOf(domain_info) <= 365 /\ AgeOf(w) > 365)
               => Reputation(username, w).score = reputation.score + 20
          /\ ((AgeOf(domain_info) <= 365) = (AgeOf(w) <= 365))
               => Reputation(username, w).score = reputation.score

\* C14 witness: a score computed for a domain 365 days old, 20 below the
\* score of the same username with a domain 366 days old.
C14_Witness ==
    /\ InReputation
    /\ pc = "done"
    /\ HasAge(domain_info)
    /\ AgeOf(domain_info) = 365
    /\ Reputation(username, Whois(FALSE, <<366>>, FALSE)).score = reputation.score + 20

InProfessional == op = "analyze_professional_score"

\* The full-name rule as stated: the derived identity has exactly two name
\* fragments, each longer than 2 characters.
StatedFullName(u) ==
    LET names == NameParts(Split(u, "."))
    IN  Len(names) = 2 /\ Len(names[1]) > 2 /\ Len(names[2]) > 2

\* C15: the professional score is the sum of its five rules, the +25
\* full-name rule firing exactly when the derived identity has exactly two
\* name fragments each longer than 2 characters and the +15 no-digits rule
\* being judged on the raw local part; the level is High from 70, Medium
\* from 40, Low otherwise.
C15_ProfessionalScoreAsStated ==
    (InProfessional /\ pc = "done") =>
      /\ professional.score =
             (IF StatedFullName(username) THEN 25 ELSE 0)
           + (IF domain \in ProfessionalDomains THEN 15 ELSE 0)
           + (IF 6 <= Len(username) /\ Len(username) <= 30 THEN 10 ELSE 0)
           + (IF CleanCharacters(username) THEN 15 ELSE 0)
           + (IF NoDigits(username) THEN 15 ELSE 0)
      /\ ("Full name format (firstname.lastname)" \in Range(professional.factors))
           <=> StatedFullName(username)
      /\ ("No numeric characters" \in Range(professional.factors))
           <=> NoDigits(username)
      /\ professional.level =
           IF professional.score >= 70 THEN "High"
           ELSE IF professional.score >= 40 THEN "Medium" ELSE "Low"

InSecurity == op = "analyze_security_risks"

\* Low < Medium < High
LevelRank(level) ==
    CASE level = "Low" -> 0 [] level = "Medium" -> 1 [] level = "High" -> 2

\* C16: during analyze_security_risks the risk level starts at Low and no
\* step lowers it: Medium is never followed by Low, and High is never
\* followed by Medium or Low, whatever the WHOIS lookup does.
C16_LevelOnlyEscalates ==
    [][ InSecurity =>
          /\ pc = "start" => risk_level = "Low"
          /\ LevelRank(risk_level') >= LevelRank(risk_level)
      ]_vars

\* C16 witness: the level was Medium for a full name before the WHOIS lookup,
\* which came back with a young domain, and is High on return.
C16_Witness ==
    /\ InSecurity
    /\ pc = "done"
    /\ "Contains full name (potential privacy concern)" \in Range(risks)
    /\ "Domain less than 1 year old" \in Range(risks)
    /\ risk_level = "High"

\* The level as the rules are stated: High for a domain less than 365 days
\* old, else Medium for a full-name separator or a failed WHOIS lookup, else
\* Low; the short-username and the digits flag do not count.
StatedSecurityLevel(u, w) ==
    IF DomainYoung(w) THEN "High"
    ELSE IF w.raised \/ \E x \in 1..Len(u) : u[x] = "." THEN "Medium"
    ELSE "Low"

\* C17: the level analyze_security_risks returns is raised only by the
\* full-name separator (Medium), a WHOIS failure (Medium, with the 'Unable
\* to verify domain age' flag) and a domain age below 365 days (High); the
\* short-username flag and the digits flag leave it unchanged.
C17_LevelRaisedOnlyAsStated ==
    (InSecurity /\ pc = "done") =>
      /\ risk_level = StatedSecurityLevel(username, domain_info)
      /\ domain_info.raised <=> "Unable to verify domain age" \in Range(risks)

\* The platforms whose result has found true.
FoundPlatforms == {p \in DOMAIN footprint.platforms : footprint.platforms[p].found}

\* C18: the visibility score of analyze_social_footprint, in tenths, is 125
\* times the number of platforms whose result has found true and lies between
\* 0 and 1000; on return the level is High from 750, Medium from 500, Low
\* otherwise, and the one recommendation is the one of that level.
C18_VisibilityScore ==
    InFootprint =>
      /\ footprint.visibility_score = 125 * Cardinality(FoundPlatforms)
      /\ footprint.visibility_score \in 0..1000
      /\ pc = "done" =>
           /\ footprint.risk_level =
                IF footprint.visibility_score >= 750 THEN "High"
                ELSE IF footprint.visibility_score >= 500 THEN "Medium" ELSE "Low"
           /\ footprint.recommendations =
                << CASE footprint.risk_level = "High" ->
                          "Consider reducing public social media presence"
                     [] footprint.risk_level = "Medium" ->
                          "Review privacy settings on social media"
                     [] footprint.risk_level = "Low" ->
                          "Good privacy practices detected" >>

\* C18 witness: six of the eight platforms were found, one raised and one
\* answered another status; the score is 75 and the level High.
C18_Witness ==
    /\ InFootprint
    /\ pc = "done"
    /\ Cardinality(FoundPlatforms) = 6
    /\ Cardinality(DOMAIN footprint.platforms) = 7
    /\ footprint.visibility_score = 750
    /\ footprint.risk_level = "High"

InDerived == InPersonalInfo /\ pc = "probe" /\ probeLog = <<>>

RECURSIVE SplitAnyFrom(_, _, _, _)
SplitAnyFrom(t, seps, cur, i) ==
    IF i > Len(t) THEN <<cur>>
    ELSE IF t[i] \in seps THEN <<cur>> \o SplitAnyFrom(t, seps, <<>>, i + 1)
    ELSE SplitAnyFrom(t, seps, Append(cur, t[i]), i + 1)

\* The tokens of the local part between the separators '.', '_' and '-'.
Tokens(u) == SplitAnyFrom(u, {".", "_", "-"}, <<>>, 1)

\* The local part is made of alphabetic tokens joined by separators.
AlphaTokens(u) ==
    \A i \in 1..Len(Tokens(u)) :
      /\ Tokens(u)[i] # <<>>
      /\ \A x \in 1..Len(Tokens(u)[i]) : IsAlpha(Tokens(u)[i][x])

\* C19: for a local part made of alphabetic tokens joined by '.', '_' or
\* '-', the derived name is made of the capitalized tokens in order (first
\* the first token, last the last one when there are several, full all of
\* them), and the birth year is absent when no part holds a 19xx/20xx
\* substring.
C19_FragmentsAreTokens ==
    InDerived =>
      /\ AlphaTokens(username) =>
           LET names == [i \in 1..Len(Tokens(username)) |->
                           Capitalize(Tokens(username)[i])]
           IN  /\ "possible_name" \in DOMAIN basic_info
               /\ basic_info["possible_name"].first = names[1]
               /\ basic_info["possible_name"].last =
                    IF Len(names) > 1 THEN names[Len(names)] ELSE <<>>
               /\ basic_info["possible_name"].full = Join(names, " ")
      /\ ~HasYear(username) => "possible_birth_year" \notin DOMAIN basic_info

\* The first part, in order, that holds a 19xx/20xx substring.
FirstYearPart(parts) ==
    parts[CHOOSE i \in 1..Len(parts) :
            HasYear(parts[i]) /\ \A k \in 1..(i - 1) : ~HasYear(parts[k])]

\* C20: when the local part holds a 4-digit substring starting with 19 or
\* 20, the possible birth year is the first match met when scanning the parts
\* in order, and no digit of it is left in the derived name.
C20_FirstBirthYearWins ==
    (InDerived /\ \E i \in 1..Len(Split(username, ".")) :
                     HasYear(Split(username, ".")[i])) =>
      /\ "possible_birth_year" \in DOMAIN basic_info
      /\ basic_info["possible_birth_year"]
           = YearMatch(FirstYearPart(Split(username, ".")))
      /\ "possible_name" \in DOMAIN basic_info =>
           NoDigits(basic_info["possible_name"].full)

\* The platforms whose last template is built from the first and the last
\* part of the username.
FirstLastPlatforms ==
    DOMAIN social_platforms \ {"Stack Overflow", "Facebook"}

\* The derived identity has one name fragment at most.
OneNameFragment ==
    \/ "possible_name" \notin DOMAIN basic_info
    \/ basic_info["possible_name"].last = <<>>

\* C21: when the derived identity has only one name fragment, the template
\* of a platform that is built from a first and a last name yields no
\* candidate.
C21_NoLastNameNoCandidate ==
    (InDerived /\ OneNameFragment) =>
      \A platform \in FirstLastPlatforms :
        Last(social_platforms[platform]) = NoneURL

\* C22: a run whose report file could not be written still completes with
\* exit code 0, and the exit code is 1 only when main refused its arguments,
\* in which case no probe or lookup has been issued. (An exception of the
\* language pipeline during the report is left aside.)
C22_WriteFailureExitsZero ==
    /\ (pc = "exited" /\ task = 5 /\ ~saved /\ crash # "nlp") => exit_code = "0"
    /\ (exit_code = "1" /\ crash # "nlp") => (ValidationFailed /\ requests = <<>>)

\* C23: for every username and domain age, the score analyze_email_reputation
\* computes before the clamp is at most 65, the clamp leaves it as it is, and
\* the level returned is never the one of the branch for a score above 70.
C23_ScoreAtMost65 ==
    (InReputation /\ pc = "done") =>
      /\ ReputationScore(username, domain_info) <= 65
      /\ reputation.score = ReputationScore(username, domain_info)
      /\ reputation.risk_level # "Low"

\* C23 witness: a username that earns every rule, with an old domain: 65.
C23_Witness ==
    /\ InReputation
    /\ pc = "done"
    /\ DomainAgeAged(domain_info)
    /\ MatchesProfessional(username)
    /\ CharTypes(username) = 4
    /\ reputation.score = 65
    /\ reputation.risk_level = "Medium"

\* C24: the candidate URLs generated for one platform in analyze_personal_info
\* are pairwise distinct.
C24_CandidatesDistinct ==
    InDerived =>
      \A platform \in DOMAIN social_platforms :
        \A i, j \in 1..Len(social_platforms[platform]) :
          (i < j /\ social_platforms[platform][j] # NoneURL)
            => social_platforms[platform][i] # social_platforms[platform][j]

\* The task the loop of run_investigation is at, as a set of result keys.
TaskAt == IF task \in 1..Len(TaskDescs) THEN {TaskDescs[task]} ELSE {}

\* C25: in run_investigation every step keeps the tasks in their order (the
\* task index stays or goes up by one), adds a result only for the task it
\* attempts and removes none, and keeps the confidence at min(100, 33 times
\* the number of results); a failed task does not stop the later ones, which
\* all have their result when the loop is over; the report file is written
\* only after the fourth task.
C25_TasksInOrder ==
    [][ /\ task' \in {task, task + 1}
        /\ results \subseteq results'
        /\ (results' \ results) \subseteq TaskAt
        /\ confidence' = Min(100, 33 * Cardinality(results'))
        /\ task' = 5 =>
             {TaskDescs[2], TaskDescs[3], TaskDescs[4]} \subseteq results'
        /\ (saved' /\ ~saved) => task = 5
      ]_vars

\* C25 witness: the first task raised, the three others returned, and the
\* report was written.
C25_Witness ==
    /\ pc = "exited"
    /\ saved
    /\ task = 5
    /\ results = {TaskDescs[2], TaskDescs[3], TaskDescs[4]}
    /\ confidence = 99

====
